---- MODULE Spec2Model ----
(***************************************************************************)
(* State-machine model of three deck.gl plugin points:                     *)
(*   - DataFilterExtension (modules/extensions/src/data-filter)            *)
(*   - FullscreenWidget    (modules/widgets/src/fullscreen-widget.tsx)     *)
(*   - CartoVectorTableSource (modules/carto/src/sources)                  *)
(* Each component has its own specification over the shared variable list: *)
(*   SpecCtor        the DataFilterExtension constructor                   *)
(*   Spec            the extension's lifecycle and counting pass on a layer*)
(*   SpecCategories  the extension's category keys and bit mask            *)
(*   SpecKeys        the same, fed many distinct categories                *)
(*   SpecWidget      the FullscreenWidget and the platform fullscreen API  *)
(*   SpecSource      the CartoVectorTableSource adapter                    *)
(***************************************************************************)
EXTENDS Integers, Sequences, FiniteSets, TLC

VARIABLES
  \* ---- DataFilterExtension and its host layer
  phase,              \* "none" | "failed" | "constructed" | "initialized" | "finalized"
  ctorArgs,           \* the options the constructor was called with
  thrown,             \* message of the Error the constructor threw, or "none"
  opts,               \* extension.opts, set by super(...)
  layerId,            \* this.id of the host layer
  attributeManager,   \* whether this.getAttributeManager() returns a manager
  filterFBO,          \* this.state.filterFBO is set
  filterModel,        \* this.state.filterModel is set
  filterNeedsUpdate,  \* this.state.filterNeedsUpdate (undefined reads as FALSE)
  categoryMap,        \* this.state.categoryMap: own property name -> key
  uniforms,           \* params.uniforms.filter_categoryBitMask of the draw just made
  gpu,                \* created / deleted counts of the GPU resources
  lastDraw,           \* the draw just made: its props, callback calls, event, readback
  changeDetected,     \* history: updateState saw a relevant change since the last report
  seen,               \* history: the category values _getCategoryKey was called with
  lastCall,           \* history: the _getCategoryKey call just made
  \* ---- FullscreenWidget and the platform
  isFullscreen,       \* this.isFullscreen
  deck,               \* this.deck: "undefined" or the kind of deck attached
  element,            \* this.element is set
  rendered,           \* a Button whose onClick is handleClick has been rendered
  label,              \* this.props.label
  fullscreenElement,  \* document.fullscreenElement is non-null
  inflight,           \* platform promises not yet settled, oldest first
  calls,              \* platform calls made so far: request / exit
  settled,            \* history: platform promises resolved / rejected so far, and
                      \* which call the last one resolved belonged to
  unhandled,          \* rejections that reached the unhandled-rejection path
  lastClick,          \* history: what the last handleClick did
  \* ---- CartoVectorTableSource
  srcPhase,           \* "idle" | "returned"
  srcInput,           \* options and format of the call
  delegated,          \* calls made to CartoBaseSource, in order, with their results
  srcResult           \* what the adapter returned

filterVars == <<phase, ctorArgs, thrown, opts, layerId, attributeManager, filterFBO,
                filterModel, filterNeedsUpdate, categoryMap, uniforms, gpu,
                lastDraw, changeDetected, seen, lastCall>>
widgetVars == <<isFullscreen, deck, element, rendered, label, fullscreenElement, inflight,
                calls, settled, unhandled, lastClick>>
sourceVars == <<srcPhase, srcInput, delegated, srcResult>>
vars == <<filterVars, widgetVars, sourceVars>>

-----------------------------------------------------------------------------
(* Bounds of the model *)

\* constructor options are tried from -SizeSlack up to 4 + SizeSlack
SizeSlack == 2
\* longest flat filterCategoryList a host passes in SpecCategories
MaxListLen == 2
\* longest color buffer read back from the filter framebuffer
MaxPixels == 2
\* largest value of one element of the color buffer
MaxColor == 1
\* number of distinct categories fed in SpecKeys
MaxDistinct == 129
\* platform calls one widget makes in SpecWidget
MaxCalls == 3
\* longest columns option in SpecSource
MaxColumns == 2

-----------------------------------------------------------------------------
(* DataFilterExtension: pure helpers *)

\* the sizes DATA_TYPE_FROM_SIZE has an entry for
DATA_TYPE_FROM_SIZE ==
  (1 :> "float") @@ (2 :> "vec2") @@ (3 :> "vec3") @@ (4 :> "vec4")

\* !DATA_TYPE_FROM_SIZE[size]  (variant: only sizes above 4 are refused)
OutOfRangeAboveOnly(size) == size > 4

OutOfRange(size) == size \notin DOMAIN DATA_TYPE_FROM_SIZE

\* a category value as JavaScript sees it: its type and its property-key string
NumberValue(n) == [type |-> "number", text |-> ToString(n)]
StringValue(s) == [type |-> "string", text |-> s]

\* `category in categoryMap` / `categoryMap[category]` coerce the value to a
\* property key (ToPropertyKey): only the string form is left
ToPropertyKey(category) == category.text

\* property names every plain object `{}` inherits from Object.prototype
ObjectPrototypeKeys == {"constructor", "toString", "hasOwnProperty", "valueOf"}

\* the `in` operator: own properties and the prototype chain
In(key, map) == key \in DOMAIN map \/ key \in ObjectPrototypeKeys

\* Object.keys(categoryMap).length
ObjectKeysLength(map) == Cardinality(DOMAIN map)

\* _getCategoryKey: the map after the call and the value returned.  The value
\* returned is a number when the property is an own one; an inherited name
\* returns the inherited (non-numeric) property.
_getCategoryKey(map, category) ==
  LET k == ToPropertyKey(category)
      m == IF In(k, map) THEN map ELSE (k :> ObjectKeysLength(map)) @@ map
  IN [map |-> m,
      isNumber |-> k \in DOMAIN m,
      key |-> IF k \in DOMAIN m THEN m[k] ELSE 0]

\* history record of one _getCategoryKey call
CallRecord(sn, category, r) ==
  [called |-> TRUE, value |-> category, fresh |-> category \notin sn,
   nth |-> Cardinality(sn), isNumber |-> r.isNumber, key |-> r.key]

\* an unsigned 32-bit word kept as two 16-bit halves
ZeroWord == [lo |-> 0, hi |-> 0]

\* word += Math.pow(2, b), stored back into a Uint32Array element (mod 2^32)
AddPow2(word, b) ==
  IF b < 16
  THEN LET s == word.lo + 2^b
       IN [lo |-> s % 65536, hi |-> (word.hi + (s \div 65536)) % 65536]
  ELSE [lo |-> word.lo, hi |-> (word.hi + 2^(b - 16)) % 65536]

\* new Uint32Array([0, 0, 0, 0]), indexed from 0
EmptyBitMask == [i \in 0..3 |-> ZeroWord]

\* maxCategories of draw
MaxCategories(categorySize) ==
  IF categorySize = 1 THEN 128 ELSE IF categorySize = 2 THEN 64 ELSE 32

\* categoryBitMask[channel] += Math.pow(2, key % 32); a write outside the
\* typed array (channel > 3, or NaN from a non-numeric key) is ignored
AddKey(mask, maxCategories, c, r) ==
  LET channel == c * (maxCategories \div 32) + (r.key \div 32)
  IN IF r.isNumber /\ channel \in DOMAIN mask
     THEN [mask EXCEPT ![channel] = AddPow2(mask[channel], r.key % 32)]
     ELSE mask

\* the inner loop of draw over one categoryFilter, group c, from position i
RECURSIVE PackGroup(_, _, _, _, _)
PackGroup(acc, maxCategories, c, categoryFilter, i) ==
  IF i > Len(categoryFilter) THEN acc
  ELSE LET r == _getCategoryKey(acc.map, categoryFilter[i])
       IN PackGroup([map |-> r.map,
                     mask |-> AddKey(acc.mask, maxCategories, c, r),
                     seen |-> acc.seen \cup {categoryFilter[i]},
                     last |-> CallRecord(acc.seen, categoryFilter[i], r)],
                    maxCategories, c, categoryFilter, i + 1)

\* the outer loop of draw over categoryFilters, from group c (0-based)
RECURSIVE PackFilters(_, _, _, _)
PackFilters(acc, maxCategories, categoryFilters, c) ==
  IF c >= Len(categoryFilters) THEN acc
  ELSE PackFilters(PackGroup(acc, maxCategories, c, categoryFilters[c + 1], 1),
                   maxCategories, categoryFilters, c + 1)

\* the transform of filterCategories over one object's categories d, from
\* position i: every element goes through _getCategoryKey, on the one map
RECURSIVE TransformFrom(_, _, _)
TransformFrom(acc, d, i) ==
  IF i > Len(d) THEN acc
  ELSE LET r == _getCategoryKey(acc.map, d[i])
       IN TransformFrom([map |-> r.map,
                         seen |-> acc.seen \cup {d[i]},
                         last |-> CallRecord(acc.seen, d[i], r)],
                        d, i + 1)

\* categoryFilters of draw
CategoryFilters(categorySize, filterCategoryList) ==
  IF categorySize = 1 THEN <<filterCategoryList>> ELSE filterCategoryList

\* the loop of draw summing the color buffer, from position i
RECURSIVE CountFrom(_, _)
CountFrom(color, i) ==
  IF i > Len(color) THEN 0 ELSE color[i] + CountFrom(color, i + 1)

\* count after the loop  (variant: the loop starts at the second element)
CountSkipFirst(color) == CountFrom(color, 2)

Count(color) == CountFrom(color, 1)

-----------------------------------------------------------------------------
(* DataFilterExtension: inputs and empty records *)

SeqsUpTo(S, n) == UNION {[1..k -> S] : k \in 0..n}

\* an option of the constructor: omitted, or given with a value
Omitted == [given |-> FALSE, value |-> 0]
Given(n) == [given |-> TRUE, value |-> n]

\* an optional array option and an optional string option of the source
UndefinedArray == [given |-> FALSE, value |-> <<>>]
UndefinedString == [given |-> FALSE, value |-> ""]

\* the calls CartoVectorTableSource can get
SourceInputs ==
  [options : [tableName : {"t1", "t2"},
              columns : {UndefinedArray} \cup
                        {Given(q) : q \in SeqsUpTo({"a", "b"}, MaxColumns)},
              spatialDataColumn : {UndefinedString, Given(""), Given("geom")}],
   format : {UndefinedString, Given("tilejson"), Given("geojson")}]
SizeInputs == {Omitted} \cup {Given(n) : n \in (0 - SizeSlack)..(4 + SizeSlack)}

\* filterCategoryList over the values S: flat for categorySize 1; for
\* categorySize n > 1, n groups of which at most one lists a value
ListsFor(categorySize, S, n) ==
  IF categorySize = 1 THEN SeqsUpTo(S, n)
  ELSE {[g \in 1..categorySize |-> <<>>]} \cup
       {[g \in 1..categorySize |-> IF g = c THEN <<v>> ELSE <<>>] :
          c \in 1..categorySize, v \in S}

\* what getFilterCategory returns for one object, over the values S
CategoriesFor(categorySize, S) == [1..categorySize -> S]

ColorBuffers == SeqsUpTo(0..MaxColor, MaxPixels)

LayerIds == {"layer-a", "layer-b"}

NoCall == [called |-> FALSE, value |-> NumberValue(0), fresh |-> FALSE, nth |-> 0,
           isNumber |-> FALSE, key |-> 0]
NoDraw == [drawn |-> FALSE, callback |-> FALSE, list |-> <<>>, reports |-> 0,
           id |-> "", count |-> 0, color |-> <<>>, pending |-> FALSE]
NoGpu == [fboCreated |-> 0, colorCreated |-> 0, modelCreated |-> 0,
          fboDeleted |-> 0, colorDeleted |-> 0, modelDeleted |-> 0]
NoOpts == [set |-> FALSE, categorySize |-> 0, filterSize |-> 0, fp64 |-> FALSE,
           countItems |-> FALSE]

-----------------------------------------------------------------------------
(* Initial states of the components *)

NoClick == [clicked |-> FALSE, fullscreen |-> FALSE, deck |-> "undefined",
            request |-> 0, exit |-> 0]

\* new FullscreenWidget(props), with the platform not in fullscreen
WidgetInit ==
  /\ isFullscreen = FALSE
  /\ deck = "undefined"
  /\ element = FALSE
  /\ rendered = FALSE
  /\ label = "Toggle Fullscreen"
  /\ fullscreenElement = FALSE
  /\ inflight = <<>>
  /\ calls = [request |-> 0, exit |-> 0]
  /\ settled = [resolved |-> 0, rejected |-> 0, lastResolved |-> "none"]
  /\ unhandled = 0
  /\ lastClick = NoClick

\* no call of CartoVectorTableSource made yet
NoInput == [options |-> [tableName |-> "t1", columns |-> UndefinedArray,
                         spatialDataColumn |-> UndefinedString],
            format |-> UndefinedString]

SourceIdle ==
  /\ srcPhase = "idle"
  /\ srcInput = NoInput
  /\ delegated = <<>>
  /\ srcResult = "none"

\* the layer state before initializeState
LayerBlank ==
  /\ thrown = "none"
  /\ layerId = ""
  /\ attributeManager = FALSE
  /\ filterFBO = FALSE
  /\ filterModel = FALSE
  /\ filterNeedsUpdate = FALSE
  /\ categoryMap = <<>>
  /\ uniforms = EmptyBitMask
  /\ gpu = NoGpu
  /\ lastDraw = NoDraw
  /\ changeDetected = FALSE
  /\ seen = {}
  /\ lastCall = NoCall

\* nothing constructed yet
FilterNone ==
  /\ phase = "none"
  /\ ctorArgs = [categorySize |-> Omitted, filterSize |-> Omitted]
  /\ opts = NoOpts
  /\ LayerBlank

\* an extension constructed with a categorySize in sizes, a countItems in
\* counting and the other options left at their defaults
FilterConstructed(sizes, counting) ==
  /\ phase = "constructed"
  /\ \E categorySize \in sizes, countItems \in counting :
       /\ ctorArgs = [categorySize |-> Given(categorySize), filterSize |-> Omitted]
       /\ opts = [set |-> TRUE, categorySize |-> categorySize, filterSize |-> 1,
                  fp64 |-> FALSE, countItems |-> countItems]
  /\ LayerBlank

-----------------------------------------------------------------------------
(* DataFilterExtension: operations *)

\* a destructured parameter `name = 1`
DefaultOne(option) == IF option.given THEN option.value ELSE 1

\* new DataFilterExtension({categorySize, filterSize, fp64, countItems})
Construct(cs, fs, fp64, countItems) ==
  LET categorySize == DefaultOne(cs)
      filterSize == DefaultOne(fs)
  IN /\ phase = "none"
     /\ ctorArgs' = [categorySize |-> cs, filterSize |-> fs]
     /\ IF OutOfRange(categorySize)
        THEN /\ thrown' = "categorySize out of range"
             /\ phase' = "failed"
             /\ opts' = opts
        ELSE IF OutOfRange(filterSize)
        THEN /\ thrown' = "filterSize out of range"
             /\ phase' = "failed"
             /\ opts' = opts
        ELSE /\ thrown' = thrown
             /\ phase' = "constructed"
             /\ opts' = [set |-> TRUE, categorySize |-> categorySize,
                         filterSize |-> filterSize, fp64 |-> fp64,
                         countItems |-> countItems]
     /\ UNCHANGED <<layerId, attributeManager, filterFBO, filterModel,
                    filterNeedsUpdate, categoryMap, uniforms, gpu, lastDraw,
                    changeDetected, seen, lastCall>>
     /\ UNCHANGED <<widgetVars, sourceVars>>

\* initializeState on a layer with or without an attribute manager
initializeState(id, hasManager) ==
  /\ phase = "constructed"
  /\ phase' = "initialized"
  /\ layerId' = id
  /\ attributeManager' = hasManager
  /\ IF hasManager /\ opts.countItems
     THEN /\ filterFBO' = TRUE
          /\ filterModel' = TRUE
          /\ gpu' = [gpu EXCEPT !.fboCreated = @ + 1, !.colorCreated = @ + 1,
                                !.modelCreated = @ + 1]
     ELSE UNCHANGED <<filterFBO, filterModel, gpu>>
  /\ UNCHANGED <<ctorArgs, thrown, opts, filterNeedsUpdate, categoryMap,
                 uniforms, lastDraw, changeDetected, seen, lastCall>>
  /\ UNCHANGED <<widgetVars, sourceVars>>

\* the value of state.filterNeedsUpdate after updateState  (variant: the
\* flag is stored on every update, also when nothing changed)
NeedsUpdateOverwritten(old, hasModel, needs) == hasModel /\ needs

NeedsUpdateAfter(old, hasModel, needs) ==
  IF hasModel /\ needs THEN TRUE ELSE old

\* updateState.  valuesNeed / categoriesNeed are the two attributes'
\* needsUpdate(); the other flags say whether props.<name> !== oldProps.<name>.
\* The params object of the previous draw is gone by now.
updateState(valuesNeed, categoriesNeed, enabledChanged, rangeChanged, softRangeChanged, listChanged) ==
  LET needs == valuesNeed \/ categoriesNeed \/ enabledChanged \/ rangeChanged
               \/ softRangeChanged \/ listChanged
  IN /\ phase = "initialized"
     /\ filterNeedsUpdate' = NeedsUpdateAfter(filterNeedsUpdate, filterModel, needs)
     /\ changeDetected' = (changeDetected \/ needs)
     /\ uniforms' = EmptyBitMask
     /\ lastDraw' = NoDraw
     /\ lastCall' = NoCall
     /\ UNCHANGED <<phase, ctorArgs, thrown, opts, layerId, attributeManager,
                    filterFBO, filterModel, categoryMap, gpu, seen>>
     /\ UNCHANGED <<widgetVars, sourceVars>>

\* the attribute manager recomputes filterCategories for one object: the
\* transform runs _getCategoryKey (with the layer as `this`, as draw does) on
\* the object's category, or on each of its categorySize categories; d holds
\* what getFilterCategory returned, one category or categorySize of them
transform(d) ==
  LET r == TransformFrom([map |-> categoryMap, seen |-> seen, last |-> NoCall], d, 1)
  IN /\ phase = "initialized"
     /\ attributeManager
     /\ Len(d) = opts.categorySize
     /\ categoryMap' = r.map
     /\ seen' = r.seen
     /\ lastCall' = r.last
     /\ uniforms' = EmptyBitMask
     /\ lastDraw' = NoDraw
     /\ UNCHANGED <<phase, ctorArgs, thrown, opts, layerId, attributeManager,
                    filterFBO, filterModel, filterNeedsUpdate, gpu, changeDetected>>
     /\ UNCHANGED <<widgetVars, sourceVars>>

\* the condition of draw's counting pass
Reports(needsUpdate, callback, hasModel) == needsUpdate /\ callback /\ hasModel

\* the event draw hands to onFilteredItemsChange
Event(id, color) == [id |-> id, count |-> Count(color)]

\* draw with props.onFilteredItemsChange set or not and props.filterCategoryList
\* = list; color is what readPixelsToArray returns if the counting pass runs
draw(callback, list, color) ==
  LET report == Reports(filterNeedsUpdate, callback, filterModel)
      packed == PackFilters([map |-> categoryMap, mask |-> EmptyBitMask,
                             seen |-> seen, last |-> NoCall],
                            MaxCategories(opts.categorySize),
                            CategoryFilters(opts.categorySize, list), 0)
  IN /\ phase = "initialized"
     /\ IF report
        THEN /\ lastDraw' = [drawn |-> TRUE, callback |-> callback, list |-> list,
                             reports |-> 1, id |-> Event(layerId, color).id,
                             count |-> Event(layerId, color).count,
                             color |-> color, pending |-> changeDetected]
             /\ filterNeedsUpdate' = FALSE
             /\ changeDetected' = FALSE
        ELSE /\ lastDraw' = [drawn |-> TRUE, callback |-> callback, list |-> list,
                             reports |-> 0, id |-> "", count |-> 0,
                             color |-> <<>>, pending |-> changeDetected]
             /\ UNCHANGED <<filterNeedsUpdate, changeDetected>>
     /\ categoryMap' = packed.map
     /\ uniforms' = packed.mask
     /\ seen' = packed.seen
     /\ lastCall' = packed.last
     /\ UNCHANGED <<phase, ctorArgs, thrown, opts, layerId, attributeManager,
                    filterFBO, filterModel, gpu>>
     /\ UNCHANGED <<widgetVars, sourceVars>>

\* the resources finalizeState deletes when state.filterFBO is set  (variant:
\* the model is not deleted)
DeletedLeakingModel(g) ==
  [g EXCEPT !.colorDeleted = @ + 1, !.fboDeleted = @ + 1]

Deleted(g) ==
  [g EXCEPT !.colorDeleted = @ + 1, !.fboDeleted = @ + 1, !.modelDeleted = @ + 1]

\* finalizeState
finalizeState ==
  /\ phase = "initialized"
  /\ phase' = "finalized"
  /\ gpu' = IF filterFBO THEN Deleted(gpu) ELSE gpu
  /\ uniforms' = EmptyBitMask
  /\ lastDraw' = NoDraw
  /\ lastCall' = NoCall
  /\ UNCHANGED <<ctorArgs, thrown, opts, layerId, attributeManager, filterFBO,
                 filterModel, filterNeedsUpdate, categoryMap, changeDetected, seen>>
  /\ UNCHANGED <<widgetVars, sourceVars>>

-----------------------------------------------------------------------------
(* SpecCtor: the constructor over in-range and out-of-range options *)

InitCtor == FilterNone /\ WidgetInit /\ SourceIdle

NextCtor ==
  \E cs \in SizeInputs, fs \in SizeInputs, fp64 \in BOOLEAN,
     countItems \in BOOLEAN :
    Construct(cs, fs, fp64, countItems)

SpecCtor == InitCtor /\ [][NextCtor]_vars

-----------------------------------------------------------------------------
(* Spec: lifecycle and counting pass of an extension on one layer *)

\* the categories the host's data and filter list use in Spec
CountingValues == {NumberValue(1)}

Init == FilterConstructed(1..4, BOOLEAN) /\ WidgetInit /\ SourceIdle

Next ==
  \/ \E id \in LayerIds, hasManager \in BOOLEAN : initializeState(id, hasManager)
  \/ \E valuesNeed \in BOOLEAN, categoriesNeed \in BOOLEAN,
        enabledChanged \in BOOLEAN, rangeChanged \in BOOLEAN,
        softRangeChanged \in BOOLEAN, listChanged \in BOOLEAN :
       updateState(valuesNeed, categoriesNeed, enabledChanged, rangeChanged,
                   softRangeChanged, listChanged)
  \/ \E d \in CategoriesFor(opts.categorySize, CountingValues) : transform(d)
  \/ \E callback \in BOOLEAN, list \in ListsFor(opts.categorySize, CountingValues, 1),
        color \in ColorBuffers :
       draw(callback, list, color)
  \/ finalizeState

Spec == Init /\ [][Next]_vars

-----------------------------------------------------------------------------
(* SpecCategories: category keys and bit mask over values of mixed types *)

\* the categories the host's data and filter list use in SpecCategories: a
\* number and a string with the same string form, another number, and a string
\* that names a property of Object.prototype
MixedValues ==
  {NumberValue(1), StringValue("1"), NumberValue(2), StringValue("constructor")}

InitCategories == FilterConstructed(1..4, {FALSE}) /\ WidgetInit /\ SourceIdle

NextCategories ==
  \/ \E hasManager \in BOOLEAN : initializeState("layer-a", hasManager)
  \/ \E categoriesNeed \in BOOLEAN, listChanged \in BOOLEAN :
       updateState(FALSE, categoriesNeed, FALSE, FALSE, FALSE, listChanged)
  \/ \E d \in CategoriesFor(opts.categorySize, MixedValues) : transform(d)
  \/ \E list \in ListsFor(opts.categorySize, MixedValues, MaxListLen) :
       draw(FALSE, list, <<>>)
  \/ finalizeState

SpecCategories == InitCategories /\ [][NextCategories]_vars

-----------------------------------------------------------------------------
(* SpecKeys: many distinct categories.  The host's numbers arrive in the     *)
(* order 0, 1, 2, ...: a call passes the newest number seen or the next one. *)

Min(a, b) == IF a < b THEN a ELSE b

FeedValues ==
  LET c == Cardinality(seen)
  IN {NumberValue(n) : n \in (IF c = 0 THEN 0 ELSE c - 1)..Min(c, MaxDistinct - 1)}

InitKeys == FilterConstructed(1..4, {FALSE}) /\ WidgetInit /\ SourceIdle

NextKeys ==
  \/ \E hasManager \in BOOLEAN : initializeState("layer-a", hasManager)
  \/ \E categoriesNeed \in BOOLEAN, listChanged \in BOOLEAN :
       updateState(FALSE, categoriesNeed, FALSE, FALSE, FALSE, listChanged)
  \/ \E d \in CategoriesFor(opts.categorySize, FeedValues) : transform(d)
  \/ \E list \in ListsFor(opts.categorySize, FeedValues, 1) :
       draw(FALSE, list, <<>>)
  \/ finalizeState

SpecKeys == InitKeys /\ [][NextKeys]_vars

-----------------------------------------------------------------------------
(* Properties of the DataFilterExtension *)

ValidSizes == {1, 2, 3, 4}

\* what the constructor saw for an option: its value, or 1 when omitted
Effective(option) == IF option.given THEN option.value ELSE 1

\* C1: construction succeeds exactly when categorySize and filterSize (1 when
\* omitted) are both in {1,2,3,4}; otherwise the constructor throws
\* 'categorySize out of range' or 'filterSize out of range' and no extension
\* instance (no opts) exists.
C1_ConstructorValidates ==
  LET cs == Effective(ctorArgs.categorySize)
      fs == Effective(ctorArgs.filterSize)
  IN phase # "none" =>
       /\ phase \in {"constructed", "failed"}
       /\ phase = "constructed" <=> (cs \in ValidSizes /\ fs \in ValidSizes)
       /\ phase = "constructed" =>
            /\ thrown = "none"
            /\ opts.set /\ opts.categorySize = cs /\ opts.filterSize = fs
       /\ phase = "failed" =>
            /\ opts = NoOpts
            /\ thrown = IF cs \notin ValidSizes THEN "categorySize out of range"
                        ELSE "filterSize out of range"

\* C1 witness: a constructor call with a valid categorySize and filterSize 5
\* has thrown
C1_Witness ==
  /\ phase = "failed"
  /\ ctorArgs.categorySize = Omitted
  /\ ctorArgs.filterSize = Given(5)
  /\ thrown = "filterSize out of range"

\* the sum of a sequence, taken from its end
RECURSIVE SumSeq(_)
SumSeq(q) == IF q = <<>> THEN 0 ELSE q[Len(q)] + SumSeq(SubSeq(q, 1, Len(q) - 1))

\* C4: a draw invokes onFilteredItemsChange iff a counting model exists, a
\* callback is set and updateState detected a relevant change since the last
\* report; at most once per draw; the report clears the pending change; a
\* draw that does not report leaves the change pending.
C4_ReportIffPending ==
  /\ filterModel => (opts.countItems /\ attributeManager)
  /\ filterModel => (filterNeedsUpdate <=> changeDetected)
  /\ lastDraw.drawn =>
       /\ lastDraw.reports \in {0, 1}
       /\ lastDraw.reports = 1 <=>
            (filterModel /\ lastDraw.callback /\ lastDraw.pending)
       /\ lastDraw.reports = 1 => (~changeDetected /\ ~filterNeedsUpdate)
       /\ lastDraw.reports = 0 => changeDetected = lastDraw.pending

\* C4 witness: a draw with a callback has reported a pending change, and the
\* report has cleared it
C4_Witness ==
  /\ lastDraw.drawn /\ lastDraw.callback /\ lastDraw.reports = 1
  /\ lastDraw.pending
  /\ ~changeDetected

\* C5: the count reported equals the sum of the color buffer read back in the
\* same draw, and the id reported is the id of the layer drawn.
C5_CountIsSum ==
  lastDraw.reports = 1 =>
    /\ lastDraw.count = SumSeq(lastDraw.color)
    /\ lastDraw.id = layerId /\ layerId \in LayerIds

\* C5 witness: a report of count 2 from the buffer <<1, 1>>
C5_Witness ==
  /\ lastDraw.reports = 1
  /\ lastDraw.color = <<1, 1>>
  /\ lastDraw.count = 2

\* C9: the framebuffer, its color attachment and the model that
\* initializeState created are each deleted exactly once by finalizeState and
\* not before; nothing is deleted when nothing was created.
C9_ResourcesReleasedOnce ==
  /\ phase \in {"initialized", "finalized"} =>
       LET n == IF opts.countItems /\ attributeManager THEN 1 ELSE 0
       IN gpu.fboCreated = n /\ gpu.colorCreated = n /\ gpu.modelCreated = n
  /\ phase # "finalized" =>
       gpu.fboDeleted = 0 /\ gpu.colorDeleted = 0 /\ gpu.modelDeleted = 0
  /\ phase = "finalized" =>
       /\ gpu.fboDeleted = gpu.fboCreated
       /\ gpu.colorDeleted = gpu.colorCreated
       /\ gpu.modelDeleted = gpu.modelCreated

\* C9 witness: a finalized layer whose three resources were created and deleted
C9_Witness ==
  /\ phase = "finalized"
  /\ gpu.fboCreated = 1 /\ gpu.fboDeleted = 1
  /\ gpu.colorDeleted = 1 /\ gpu.modelDeleted = 1

\* C2 as stated: the n-th distinct category value seen is assigned key n-1
\* whatever its type (the call returns a number, and a value not seen before
\* gets the number of distinct values seen before it).
C2_NthDistinctGetsKey ==
  lastCall.called =>
    /\ lastCall.isNumber
    /\ lastCall.fresh => lastCall.key = lastCall.nth

\* bit b of an unsigned 32-bit word kept as two 16-bit halves
Bit(word, b) ==
  IF b < 16 THEN (word.lo \div 2^b) % 2 ELSE (word.hi \div 2^(b - 16)) % 2

C10_KeysBelow128 ==
  \A name \in DOMAIN categoryMap :
    /\ categoryMap[name] \in 0..127
    /\ (categoryMap[name] \div 32) \in DOMAIN uniforms

\* the groups of the list of the draw just made, as draw walks them
DrawnFilters == CategoryFilters(opts.categorySize, lastDraw.list)

\* the number of bit mask words one group of the list has
WordsPerGroup == MaxCategories(opts.categorySize) \div 32

\* some entry of the list of the draw just made has a key whose bit is bit b
\* of word w
ListedBit(w, b) ==
  \E c \in 1..Len(DrawnFilters) : \E i \in 1..Len(DrawnFilters[c]) :
    LET name == ToPropertyKey(DrawnFilters[c][i])
    IN /\ name \in DOMAIN categoryMap
       /\ (c - 1) * WordsPerGroup + (categoryMap[name] \div 32) = w
       /\ categoryMap[name] % 32 = b

\* C11 as stated: the bit mask a draw writes depends only on the set of keys
\* listed, whatever their order and however often each is listed: a bit of the
\* four words is set exactly when it is the bit of a listed key (no carry into
\* another bit, no wrap to 0).
C11_MaskOfKeySet ==
  lastDraw.drawn =>
    \A w \in DOMAIN uniforms : \A b \in 0..31 :
      Bit(uniforms[w], b) = 1 <=> ListedBit(w, b)

\* C12 as stated: with categorySize 2, 3 or 4, a draw changes only the words
\* reserved for the groups that list a category: a word that is not zero lies
\* in c*(maxCategories/32) .. (c+1)*(maxCategories/32)-1 of a group c whose
\* list is not empty, whatever has been seen before.
C12_GroupWordsOnly ==
  (lastDraw.drawn /\ opts.categorySize \in {2, 3, 4}) =>
    \A w \in DOMAIN uniforms :
      uniforms[w] # ZeroWord =>
        \E c \in 0..(Len(DrawnFilters) - 1) :
          /\ DrawnFilters[c + 1] # <<>>
          /\ w \in (c * WordsPerGroup)..((c + 1) * WordsPerGroup - 1)

-----------------------------------------------------------------------------
(* FullscreenWidget *)

DeckKinds == {"ok", "noCanvas", "noParent"}

\* this.deck?.canvas?.parentElement?.requestFullscreen: whether the chain
\* reaches an element to call  (variant: any deck will do)
ReachesElementWithAnyDeck(d) == d # "undefined"

ReachesElement(d) == d = "ok"

\* onAdd({deck}): the deck may have no canvas yet, or a canvas without parent
onAdd(d) ==
  /\ deck' = d
  /\ element' = TRUE
  /\ rendered' = TRUE
  /\ lastClick' = NoClick
  /\ UNCHANGED <<isFullscreen, label, fullscreenElement, inflight, calls, settled,
                 unhandled>>
  /\ UNCHANGED <<filterVars, sourceVars>>

\* onRemove: the references are dropped; the button rendered by onAdd is not
\* unrendered
onRemove ==
  /\ deck' = "undefined"
  /\ element' = FALSE
  /\ lastClick' = NoClick
  /\ UNCHANGED <<isFullscreen, rendered, label, fullscreenElement, inflight, calls, settled,
                 unhandled>>
  /\ UNCHANGED <<filterVars, sourceVars>>

\* setProps({label})
setProps(l) ==
  /\ label' = l
  /\ lastClick' = NoClick
  /\ UNCHANGED <<isFullscreen, deck, element, rendered, fullscreenElement,
                 inflight, calls, settled, unhandled>>
  /\ UNCHANGED <<filterVars, sourceVars>>

\* requestFullscreen up to its await: with an element to call, the platform
\* is called and the promise is in flight; without one, `await undefined`
\* continues in the same turn and the flag is set
requestFullscreen ==
  IF ReachesElement(deck)
  THEN /\ calls' = [calls EXCEPT !.request = @ + 1]
       /\ inflight' = Append(inflight, "request")
       /\ isFullscreen' = isFullscreen
  ELSE /\ isFullscreen' = TRUE
       /\ UNCHANGED <<calls, inflight>>

\* exitFullscreen up to its await
exitFullscreen ==
  /\ calls' = [calls EXCEPT !.exit = @ + 1]
  /\ inflight' = Append(inflight, "exit")
  /\ isFullscreen' = isFullscreen

\* handleClick, the onClick of the button onAdd rendered
handleClick ==
  /\ rendered
  /\ calls.request + calls.exit < MaxCalls
  /\ IF ~fullscreenElement THEN requestFullscreen ELSE exitFullscreen
  /\ lastClick' = [clicked |-> TRUE, fullscreen |-> fullscreenElement,
                   deck |-> deck,
                   request |-> calls'.request - calls.request,
                   exit |-> calls'.exit - calls.exit]
  /\ UNCHANGED <<deck, element, rendered, label, fullscreenElement, settled,
                 unhandled>>
  /\ UNCHANGED <<filterVars, sourceVars>>

Remove(q, i) == SubSeq(q, 1, i - 1) \o SubSeq(q, i + 1, Len(q))

\* the statement after the await, run when the platform resolves promise i
resolve(i) ==
  /\ i \in 1..Len(inflight)
  /\ inflight' = Remove(inflight, i)
  /\ settled' = [settled EXCEPT !.resolved = @ + 1, !.lastResolved = inflight[i]]
  /\ IF inflight[i] = "request"
     THEN fullscreenElement' = TRUE /\ isFullscreen' = TRUE
     ELSE fullscreenElement' = FALSE /\ isFullscreen' = FALSE
  /\ lastClick' = NoClick
  /\ UNCHANGED <<deck, element, rendered, label, calls, unhandled>>
  /\ UNCHANGED <<filterVars, sourceVars>>

\* what a rejected await leaves behind: no catch, so the async function's
\* promise rejects, nobody holds it, and the flag is not touched  (variant:
\* the flag is cleared)
AfterRejectClearsFlag(flag) == [isFullscreen |-> FALSE, unhandled |-> 1]

AfterReject(flag) == [isFullscreen |-> flag, unhandled |-> 1]

\* the platform rejects promise i
reject(i) ==
  /\ i \in 1..Len(inflight)
  /\ inflight' = Remove(inflight, i)
  /\ settled' = [settled EXCEPT !.rejected = @ + 1]
  /\ isFullscreen' = AfterReject(isFullscreen).isFullscreen
  /\ unhandled' = unhandled + AfterReject(isFullscreen).unhandled
  /\ lastClick' = NoClick
  /\ UNCHANGED <<deck, element, rendered, label, fullscreenElement, calls>>
  /\ UNCHANGED <<filterVars, sourceVars>>

\* the document enters or leaves fullscreen without the widget (Esc key,
\* another element)
fullscreenchange ==
  /\ fullscreenElement' = ~fullscreenElement
  /\ lastClick' = NoClick
  /\ UNCHANGED <<isFullscreen, deck, element, rendered, label, inflight, calls,
                 settled, unhandled>>
  /\ UNCHANGED <<filterVars, sourceVars>>

InitWidget == FilterNone /\ WidgetInit /\ SourceIdle

NextWidget ==
  \/ \E d \in DeckKinds : onAdd(d)
  \/ onRemove
  \/ \E l \in {"Toggle Fullscreen", "Fullscreen"} : setProps(l)
  \/ handleClick
  \/ \E i \in 1..MaxCalls : resolve(i)
  \/ \E i \in 1..MaxCalls : reject(i)
  \/ fullscreenchange

SpecWidget == InitWidget /\ [][NextWidget]_vars

-----------------------------------------------------------------------------
(* CartoVectorTableSource *)

\* columns.join(',') from position i
RECURSIVE JoinFrom(_, _)
JoinFrom(columns, i) ==
  IF i > Len(columns) THEN ""
  ELSE IF i = Len(columns) THEN columns[i]
  ELSE columns[i] \o "," \o JoinFrom(columns, i + 1)

Join(columns) == JoinFrom(columns, 1)

\* if (columns): an array is truthy whenever it is given, even empty
TruthyArray(option) == option.given

\* if (spatialDataColumn): a string is truthy when given and not empty
TruthyString(option) == option.given /\ option.value # ""

\* urlParameters as built before the delegation  (variant: an empty columns
\* array is skipped)
UrlParametersNoEmptyColumns(options) ==
  ("name" :> options.tableName)
  @@ (IF TruthyArray(options.columns) /\ options.columns.value # <<>>
      THEN ("columns" :> Join(options.columns.value)) ELSE <<>>)
  @@ (IF TruthyString(options.spatialDataColumn)
      THEN ("geo_column" :> options.spatialDataColumn.value) ELSE <<>>)

UrlParameters(options) ==
  ("name" :> options.tableName)
  @@ (IF TruthyArray(options.columns)
      THEN ("columns" :> Join(options.columns.value)) ELSE <<>>)
  @@ (IF TruthyString(options.spatialDataColumn)
      THEN ("geo_column" :> options.spatialDataColumn.value) ELSE <<>>)

\* what CartoBaseSource may return: a document, or a rejected promise
DelegateResults == {"tilejson document", "geojson document", "rejected"}

\* CartoVectorTableSource(options, format), the delegate returning result
CartoVectorTableSource(result) ==
  /\ srcPhase = "idle"
  /\ srcPhase' = "returned"
  /\ delegated' = Append(delegated,
                         [type |-> "MAP_TYPES.TABLE",
                          options |-> srcInput.options,
                          urlParameters |-> UrlParameters(srcInput.options),
                          format |-> srcInput.format,
                          result |-> result])
  /\ srcResult' = result
  /\ UNCHANGED srcInput
  /\ UNCHANGED <<filterVars, widgetVars>>

InitSource ==
  /\ FilterNone
  /\ WidgetInit
  /\ srcPhase = "idle"
  /\ srcInput \in SourceInputs
  /\ delegated = <<>>
  /\ srcResult = "none"

NextSource == \E result \in DelegateResults : CartoVectorTableSource(result)

SpecSource == InitSource /\ [][NextSource]_vars

-----------------------------------------------------------------------------
(* Properties of the FullscreenWidget *)

\* C6 as stated: in every reachable state a click calls request-fullscreen
\* exactly once (and exit not at all) when no fullscreen element is active,
\* and exit-fullscreen exactly once (and request not at all) when one is.
C6_ClickCallsPlatformOnce ==
  lastClick.clicked =>
    IF ~lastClick.fullscreen
    THEN lastClick.request = 1 /\ lastClick.exit = 0
    ELSE lastClick.exit = 1 /\ lastClick.request = 0

\* C6 amended: with no fullscreen element active a click calls
\* request-fullscreen exactly once if the widget holds a deck whose canvas
\* has a parent element, and makes no platform call otherwise; with a
\* fullscreen element active it calls exit-fullscreen exactly once and
\* request-fullscreen not at all.
C6_ClickCallsPlatformIfAttached ==
  lastClick.clicked =>
    IF ~lastClick.fullscreen
    THEN /\ lastClick.request = (IF lastClick.deck = "ok" THEN 1 ELSE 0)
         /\ lastClick.exit = 0
    ELSE lastClick.exit = 1 /\ lastClick.request = 0

\* C6 witness: after an earlier click that exited fullscreen, a click on the
\* attached widget with no fullscreen element has requested fullscreen once
C6_Witness ==
  /\ lastClick.clicked /\ ~lastClick.fullscreen /\ lastClick.deck = "ok"
  /\ lastClick.request = 1
  /\ calls.exit >= 1

C13_FlagOnlyAfterResolvedRequest ==
  (inflight = <<>> /\ isFullscreen) => settled.lastResolved = "request"

-----------------------------------------------------------------------------
(* Properties of CartoVectorTableSource *)

\* a sequence of strings joined by ',', taken from its end
RECURSIVE Joined(_)
Joined(q) ==
  IF q = <<>> THEN ""
  ELSE IF Len(q) = 1 THEN q[1]
  ELSE Joined(SubSeq(q, 1, Len(q) - 1)) \o "," \o q[Len(q)]

\* the part of C8 that does not depend on when geo_column is present
SourceDelegatesOnce(geoPresent) ==
  srcPhase = "returned" =>
    /\ Len(delegated) = 1
    /\ LET call == delegated[1]
           o == srcInput.options
           u == call.urlParameters
       IN /\ call.type = "MAP_TYPES.TABLE"
          /\ call.options = o
          /\ call.format = srcInput.format
          /\ u["name"] = o.tableName
          /\ "columns" \in DOMAIN u <=> o.columns.given
          /\ o.columns.given => u["columns"] = Joined(o.columns.value)
          /\ "geo_column" \in DOMAIN u <=> geoPresent
          /\ geoPresent => u["geo_column"] = o.spatialDataColumn.value
          /\ DOMAIN u \subseteq {"name", "columns", "geo_column"}
          /\ srcResult = call.result

\* C8 as stated: one delegation with the TABLE type, options and format passed
\* through, name = tableName, columns = the columns joined by ',' present
\* exactly when the option is supplied, geo_column = spatialDataColumn present
\* exactly when that option is supplied, no other key, and the delegate's
\* result returned.
C8_GeoColumnWhenSupplied ==
  SourceDelegatesOnce(srcInput.options.spatialDataColumn.given)

\* C8 amended: as C8, but geo_column is present exactly when
\* spatialDataColumn is supplied and is not the empty string.
C8_GeoColumnWhenNonEmpty ==
  SourceDelegatesOnce(srcInput.options.spatialDataColumn.given
                      /\ srcInput.options.spatialDataColumn.value # "")

\* C8 witness: the call of the spec's example has returned
C8_Witness ==
  /\ srcPhase = "returned"
  /\ srcInput.options = [tableName |-> "t1", columns |-> Given(<<"a", "b">>),
                         spatialDataColumn |-> Given("geom")]
  /\ delegated[1].urlParameters =
       ("name" :> "t1") @@ ("columns" :> "a,b") @@ ("geo_column" :> "geom")

====
